---- MODULE Spec2Model ----
(***************************************************************************)
(* Model of Packages/validations/src/lib.rs: the HSchema builder (the      *)
(* constructors, the copy-on-write modifiers, add_prop), the structural    *)
(* mirror every schema carries (a JavaScript object, shared by reference), *)
(* and the recursive validation algorithm validate_inner.                  *)
(***************************************************************************)
EXTENDS Integers, Sequences, FiniteSets, TLC

VARIABLES handles, heap, call, op, fuel

vars == <<handles, heap, call, op, fuel>>

(***************************************************************************)
(* Option<T>: None is the empty tuple, Some(x) the one-element tuple.      *)
(***************************************************************************)
None == <<>>

Some(x) == <<x>>

IsSome(o) == o # <<>>

Unwrap(o) == o[1]

(***************************************************************************)
(* JavaScript values (JsValue).                                            *)
(***************************************************************************)
UNDEFINED == [t |-> "undefined"]

NULL == [t |-> "null"]

Bool(b) == [t |-> "boolean", b |-> b]

Num(n) == [t |-> "number", n |-> n]

Str(s) == [t |-> "string", s |-> s]

\* A JavaScript array with the elements elems.
Arr(elems) == [t |-> "array", elems |-> elems]

\* A plain JavaScript object: fields maps its own keys to their values.
Obj(fields) == [t |-> "object", fields |-> fields]

\* An object created by the constructor (class) named class.
Inst(class) == [t |-> "instance", class |-> class]

\* A reference to the JavaScript object at heap[id].
Ref(id) == [t |-> "ref", id |-> id]

is_undefined(v) == v.t = "undefined"

is_null(v) == v.t = "null"

is_string(v) == v.t = "string"

\* JsValue::is_object: typeof v === "object" && v !== null.
is_object(v) == v.t \in {"object", "array", "instance"}

is_array(v) == v.t = "array"

as_string(v) == IF v.t = "string" THEN Some(v.s) ELSE None

as_f64(v) == IF v.t = "number" THEN Some(v.n) ELSE None

as_bool(v) == IF v.t = "boolean" THEN Some(v.b) ELSE None

\* JsValue::is_truthy: JavaScript's ToBoolean.
is_truthy(v) ==
    CASE v.t \in {"undefined", "null"} -> FALSE
      [] v.t = "boolean" -> v.b
      [] v.t = "number" -> v.n # 0
      [] v.t = "string" -> v.s # ""
      [] OTHER -> TRUE

\* JsValue's PartialEq is JavaScript's ===. Objects and arrays compare by
\* identity, which the model's values do not carry: only primitives are
\* compared (the model's literals are primitives).
StrictEq(a, b) == a.t = b.t /\ a = b

\* Reflect::get(value, key).unwrap_or(UNDEFINED)
ReflectGet(v, key) ==
    IF v.t = "object" /\ key \in DOMAIN v.fields THEN v.fields[key] ELSE UNDEFINED

\* Reflect::set(obj, key, v) on the fields of a JavaScript object.
ReflectSet(fields, key, v) ==
    [k \in (DOMAIN fields) \cup {key} |-> IF k = key THEN v ELSE fields[k]]

(***************************************************************************)
(* Formatting.                                                             *)
(***************************************************************************)
Digits == <<"0", "1", "2", "3", "4", "5", "6", "7", "8", "9">>

RECURSIVE nat_to_string(_)
nat_to_string(n) ==
    IF n < 10 THEN Digits[n + 1]
    ELSE nat_to_string(n \div 10) \o Digits[(n % 10) + 1]

\* usize::to_string, and Display of an f64 that holds an integer.
to_string(n) == IF n < 0 THEN "-" \o nat_to_string(-n) ELSE nat_to_string(n)

RECURSIVE JoinStrings(_, _)
JoinStrings(ss, sep) ==
    IF ss = <<>> THEN ""
    ELSE IF Len(ss) = 1 THEN ss[1]
    ELSE ss[1] \o sep \o JoinStrings(Tail(ss), sep)

\* The keys of the model's input objects, in the order objects list them.
KeyOrder == <<"a", "b", "c">>

KeysOf(fields) == SelectSeq(KeyOrder, LAMBDA k : k \in DOMAIN fields)

\* JSON.stringify of a value (undefined members of an object are left out,
\* those of an array print as null).
RECURSIVE JsonString(_)
JsonString(v) ==
    CASE v.t = "undefined" -> "null"
      [] v.t = "null" -> "null"
      [] v.t = "boolean" -> IF v.b THEN "true" ELSE "false"
      [] v.t = "number" -> to_string(v.n)
      [] v.t = "string" -> "\"" \o v.s \o "\""
      [] v.t = "array" ->
           "[" \o JoinStrings([i \in 1..Len(v.elems) |-> JsonString(v.elems[i])], ",") \o "]"
      [] v.t = "object" ->
           LET ks == SelectSeq(KeysOf(v.fields), LAMBDA k : ~is_undefined(v.fields[k]))
           IN "{" \o JoinStrings([i \in 1..Len(ks) |->
                     "\"" \o ks[i] \o "\":" \o JsonString(v.fields[ks[i]])], ",") \o "}"
      [] OTHER -> "{}"

\* format!("{:?}", value): JsValue's Debug is "JsValue(<debug string>)".
RECURSIVE DebugString(_)
DebugString(v) ==
    CASE v.t = "undefined" -> "undefined"
      [] v.t = "null" -> "null"
      [] v.t = "boolean" -> IF v.b THEN "true" ELSE "false"
      [] v.t = "number" -> to_string(v.n)
      [] v.t = "string" -> "\"" \o v.s \o "\""
      [] v.t = "array" ->
           "[" \o JoinStrings([i \in 1..Len(v.elems) |-> DebugString(v.elems[i])], ", ") \o "]"
      [] v.t = "object" -> "Object(" \o JsonString(v) \o ")"
      [] OTHER -> v.class

DebugFormat(v) == "JsValue(" \o DebugString(v) \o ")"

\* The numbers str::parse::<f64> is tried against.
ParseRange == -9..99

\* s.parse::<f64>(): Some(n) when s is the decimal form of n, None otherwise.
ParseF64(s) ==
    IF \E n \in ParseRange : to_string(n) = s
    THEN Some(CHOOSE n \in ParseRange : to_string(n) = s)
    ELSE None

(***************************************************************************)
(* The strings of the model and what the format patterns make of them.    *)
(***************************************************************************)
UuidStrs == {"123e4567-e89b-42d3-a456-426614174000"}

EmailStrs == {"a@b.co"}

PhoneStrs == {"+1234567"}

DomainStrs == {"b.co"}

UrlStrs == {"http://b.co"}

\* The patterns regex() is called with: one that compiles, one that does not.
Patterns == {"^x+$", "("}

\* Regex::new(p).map(|r| r.is_match(s)).unwrap_or(false)
RegexIsMatch(p, s) == p = "^x+$" /\ s \in {"x", "xx"}

\* The format dispatch: whether val_str matches the active format.
FormatValid(fmt, val_str) ==
    CASE fmt.f = "Uuid" -> val_str \in UuidStrs
      [] fmt.f = "Email" -> val_str \in EmailStrs
      [] fmt.f = "Phone" -> val_str \in PhoneStrs
      [] fmt.f = "Regex" -> RegexIsMatch(fmt.pattern, val_str)
      [] fmt.f = "Domain" ->
           IF fmt.require_protocol THEN val_str \in UrlStrs ELSE val_str \in DomainStrs

\* inline_js is_instance_of(val, ctor): val instanceof ctor.
is_instance_of(v, ctor) ==
    CASE ctor = "Object" -> is_object(v)
      [] ctor = "Array" -> is_array(v)
      [] OTHER -> v.t = "instance" /\ v.class = ctor

(***************************************************************************)
(* struct Issue and Result<JsValue, Vec<Issue>>.                           *)
(***************************************************************************)
Issue(message, path) == [message |-> message, path |-> path]

Ok(v) == [ok |-> TRUE, val |-> v]

Err(issues) == [ok |-> FALSE, issues |-> issues]

\* Option<Vec<String>>::unwrap_or_default
UnwrapOrDefault(path) == IF IsSome(path) THEN Unwrap(path) ELSE <<>>

(***************************************************************************)
(* validate_inner. An HSchema is [inner, is_optional, json_schema]; inner  *)
(* is the SchemaType, a record tagged by kind. An Object's props is the    *)
(* HashMap as its iterator yields it: a sequence of [key, schema] entries  *)
(* in the table's order, which is not the order of insertion. declared is  *)
(* not a field of the code: it remembers the keys in the order add_prop    *)
(* first declared them, for the claims that speak of that order.           *)
(***************************************************************************)
RECURSIVE validate_inner(_, _, _)
RECURSIVE ObjectLoop(_, _, _, _, _, _)
RECURSIVE ArrayLoop(_, _, _, _, _, _)
RECURSIVE UnionLoop(_, _, _, _, _)

ValidateString(inner, value, path) ==
    IF ~is_string(value) /\ ~inner.coerce
    THEN Err(<<Issue("Expected string, received " \o DebugFormat(value), path)>>)
    ELSE LET val_str == IF is_string(value) THEN Unwrap(as_string(value))
                        ELSE DebugFormat(value)
         IN IF IsSome(inner.min_len) /\ Len(val_str) < Unwrap(inner.min_len)
            THEN Err(<<Issue("String shorter than " \o to_string(Unwrap(inner.min_len)), path)>>)
            ELSE IF IsSome(inner.max_len) /\ Len(val_str) > Unwrap(inner.max_len)
            THEN Err(<<Issue("String longer than " \o to_string(Unwrap(inner.max_len)), path)>>)
            ELSE IF IsSome(inner.format) /\ ~FormatValid(Unwrap(inner.format), val_str)
            THEN Err(<<Issue("Invalid format", path)>>)
            ELSE Ok(Str(val_str))

NumberBounds(inner, val_num, path) ==
    IF IsSome(inner.min) /\ val_num < Unwrap(inner.min)
    THEN Err(<<Issue("Number less than " \o to_string(Unwrap(inner.min)), path)>>)
    ELSE IF IsSome(inner.max) /\ val_num > Unwrap(inner.max)
    THEN Err(<<Issue("Number greater than " \o to_string(Unwrap(inner.max)), path)>>)
    ELSE Ok(Num(val_num))

ValidateNumber(inner, value, path) ==
    IF IsSome(as_f64(value)) THEN NumberBounds(inner, Unwrap(as_f64(value)), path)
    ELSE IF inner.coerce
    THEN IF IsSome(as_string(value))
         THEN LET parsed == ParseF64(Unwrap(as_string(value)))
              IN IF IsSome(parsed) THEN NumberBounds(inner, Unwrap(parsed), path)
                 ELSE Err(<<Issue("Could not coerce to number", path)>>)
         ELSE Err(<<Issue("Expected number", path)>>)
    ELSE Err(<<Issue("Expected number", path)>>)

\* A Boolean arm whose coercion takes the truthy values only: a falsy
\* value passes only if it is the boolean false.
ValidateBooleanTruthyCoerce(inner, value, path) ==
    IF is_truthy(value) /\ (IsSome(as_bool(value)) \/ inner.coerce)
    THEN Ok(Bool(TRUE))
    ELSE IF ~is_truthy(value) /\ IsSome(as_bool(value))
    THEN Ok(Bool(FALSE))
    ELSE Err(<<Issue("Expected boolean", path)>>)

ValidateBoolean(inner, value, path) ==
    IF is_truthy(value) /\ (IsSome(as_bool(value)) \/ inner.coerce)
    THEN Ok(Bool(is_truthy(value)))
    ELSE IF ~is_truthy(value) /\ (IsSome(as_bool(value)) \/ inner.coerce)
    THEN Ok(Bool(FALSE))
    ELSE Err(<<Issue("Expected boolean", path)>>)

ValidateLiteral(inner, value, path) ==
    IF StrictEq(value, inner.value) THEN Ok(value)
    ELSE Err(<<Issue("Literal mismatch", path)>>)

ValidateNull(value, path) ==
    IF is_null(value) THEN Ok(NULL)
    ELSE Err(<<Issue("Expected null", path)>>)

ValidateInstanceOf(inner, value, path) ==
    IF is_instance_of(value, inner.ctor) THEN Ok(value)
    ELSE Err(<<Issue("Expected instance of " \o inner.name, path)>>)

\* A property arm that takes null, like undefined, for a missing value.
PropertyArmNullMissing(key, schema, val, current_path, r, result_obj, issues) ==
    IF r.ok THEN [result_obj |-> ReflectSet(result_obj, key, r.val), issues |-> issues]
    ELSE IF (is_undefined(val) \/ is_null(val)) /\ schema.is_optional
    THEN [result_obj |-> result_obj, issues |-> issues]
    ELSE IF (is_undefined(val) \/ is_null(val)) /\ ~schema.is_optional
    THEN [result_obj |-> result_obj,
          issues |-> Append(issues,
                       Issue("Missing required property: " \o key, Some(current_path)))]
    ELSE [result_obj |-> result_obj, issues |-> issues \o r.issues]

\* The arm of one property in the Object loop: what it does to result_obj
\* and issues, given the child's result r on the looked-up value val.
PropertyArm(key, schema, val, current_path, r, result_obj, issues) ==
    IF r.ok THEN [result_obj |-> ReflectSet(result_obj, key, r.val), issues |-> issues]
    ELSE IF is_undefined(val) /\ schema.is_optional
    THEN [result_obj |-> result_obj, issues |-> issues]
    ELSE IF is_undefined(val) /\ ~schema.is_optional
    THEN [result_obj |-> result_obj,
          issues |-> Append(issues,
                       Issue("Missing required property: " \o key, Some(current_path)))]
    ELSE [result_obj |-> result_obj, issues |-> issues \o r.issues]

\* for (key, schema) in props, from entry i on.
ObjectLoop(props, value, path, i, result_obj, issues) ==
    IF i > Len(props)
    THEN IF issues # <<>> THEN Err(issues) ELSE Ok(Obj(result_obj))
    ELSE LET key == props[i].key
             schema == props[i].schema
             val == ReflectGet(value, key)
             current_path == Append(UnwrapOrDefault(path), key)
             r == validate_inner(schema, val, Some(current_path))
             arm == PropertyArm(key, schema, val, current_path, r, result_obj, issues)
         IN ObjectLoop(props, value, path, i + 1, arm.result_obj, arm.issues)

ValidateObject(inner, value, path) ==
    IF ~is_object(value) \/ is_array(value)
    THEN Err(<<Issue("Expected object", path)>>)
    ELSE ObjectLoop(inner.props, value, path, 1, <<>>, <<>>)

\* An element path that counts the elements from 1.
ElementPathFromOne(path, i) == Append(UnwrapOrDefault(path), to_string(i + 1))

\* The path of element i (counted from 0) of an array at path.
ElementPath(path, i) == Append(UnwrapOrDefault(path), to_string(i))

\* for (i, val) in arr.iter().enumerate(), from element i (counted from 1) on.
ArrayLoop(item_schema, elems, path, i, result_arr, issues) ==
    IF i > Len(elems)
    THEN IF issues # <<>> THEN Err(issues) ELSE Ok(Arr(result_arr))
    ELSE LET r == validate_inner(item_schema, elems[i], Some(ElementPath(path, i - 1)))
         IN IF r.ok
            THEN ArrayLoop(item_schema, elems, path, i + 1, Append(result_arr, r.val), issues)
            ELSE ArrayLoop(item_schema, elems, path, i + 1, result_arr, issues \o r.issues)

ValidateArray(inner, value, path) ==
    IF ~is_array(value) THEN Err(<<Issue("Expected array", path)>>)
    ELSE ArrayLoop(inner.item_schema, value.elems, path, 1, <<>>, <<>>)

\* A union that lets the last accepting alternative win and lists the
\* issues of the later alternatives first.
RECURSIVE UnionLoopBackwards(_, _, _, _, _)
UnionLoopBackwards(schemas, value, path, i, all_issues) ==
    IF i < 1 THEN Err(all_issues)
    ELSE LET r == validate_inner(schemas[i], value, path)
         IN IF r.ok THEN Ok(r.val)
            ELSE UnionLoopBackwards(schemas, value, path, i - 1, all_issues \o r.issues)

ValidateUnionBackwards(inner, value, path) ==
    UnionLoopBackwards(inner.schemas, value, path, Len(inner.schemas), <<>>)

\* The path a union hands to each alternative.
AlternativePath(path) == path

\* for schema in schemas, from alternative i on.
UnionLoop(schemas, value, path, i, all_issues) ==
    IF i > Len(schemas) THEN Err(all_issues)
    ELSE LET r == validate_inner(schemas[i], value, AlternativePath(path))
         IN IF r.ok THEN Ok(r.val)
            ELSE UnionLoop(schemas, value, path, i + 1, all_issues \o r.issues)

ValidateUnion(inner, value, path) == UnionLoop(inner.schemas, value, path, 1, <<>>)

\* A top-level rule that takes only undefined, not null, for absence.
TopLevelRuleUndefinedOnly(self, value) ==
    \/ is_undefined(value) /\ self.is_optional
    \/ is_null(value) /\ self.inner.kind = "Null"

\* The rule evaluated before the variant dispatch.
TopLevelRule(self, value) ==
    /\ is_undefined(value) \/ is_null(value)
    /\ self.is_optional \/ (self.inner.kind = "Null" /\ is_null(value))

\* match &self.inner
VariantDispatch(self, value, path) ==
    CASE self.inner.kind = "String" -> ValidateString(self.inner, value, path)
      [] self.inner.kind = "Number" -> ValidateNumber(self.inner, value, path)
      [] self.inner.kind = "Boolean" -> ValidateBoolean(self.inner, value, path)
      [] self.inner.kind = "Literal" -> ValidateLiteral(self.inner, value, path)
      [] self.inner.kind = "Null" -> ValidateNull(value, path)
      [] self.inner.kind = "Any" -> Ok(value)
      [] self.inner.kind = "Object" -> ValidateObject(self.inner, value, path)
      [] self.inner.kind = "Array" -> ValidateArray(self.inner, value, path)
      [] self.inner.kind = "Union" -> ValidateUnion(self.inner, value, path)
      [] self.inner.kind = "InstanceOf" -> ValidateInstanceOf(self.inner, value, path)

validate_inner(self, value, path) ==
    IF TopLevelRule(self, value) THEN Ok(UNDEFINED)
    ELSE VariantDispatch(self, value, path)

\* HSchema::validate: the {value} or {issues} object it returns. serde
\* leaves the path out of an issue whose path is None.
ValidateResult(self, value) == validate_inner(self, value, None)

(***************************************************************************)
(* The builder. handles[i] is the HSchema struct behind the i-th           *)
(* JavaScript handle the program made (None once the struct was moved out  *)
(* of it). heap holds the JavaScript objects of the mirrors: json_schema   *)
(* is an index into it, and HSchema's derived Clone copies that index, not *)
(* the object. op is the last builder call: its receiver and the handle it *)
(* returned (0: none). fuel is the number of builder calls still to come.  *)
(***************************************************************************)
Slots == DOMAIN handles

Live(i) == i \in Slots /\ IsSome(handles[i])

\* js_sys::Object::new()
EmptyObject == <<>>

HSchema(inner, json_schema) ==
    [inner |-> inner, is_optional |-> FALSE, json_schema |-> json_schema]

\* A constructor's return: a new handle for schema, new_objects appended to
\* the heap.
Construct(schema, new_objects) ==
    /\ call = None
    /\ fuel > 0
    /\ handles' = Append(handles, Some(schema))
    /\ heap' = heap \o new_objects
    /\ op' = [self |-> 0, ret |-> Len(handles) + 1]
    /\ fuel' = fuel - 1
    /\ UNCHANGED call

string ==
    Construct(HSchema([kind |-> "String", min_len |-> None, max_len |-> None,
                       format |-> None, coerce |-> FALSE], Len(heap) + 1),
              <<ReflectSet(EmptyObject, "type", Str("string"))>>)

number ==
    Construct(HSchema([kind |-> "Number", min |-> None, max |-> None, coerce |-> FALSE],
                      Len(heap) + 1),
              <<ReflectSet(EmptyObject, "type", Str("number"))>>)

boolean ==
    Construct(HSchema([kind |-> "Boolean", coerce |-> FALSE], Len(heap) + 1),
              <<ReflectSet(EmptyObject, "type", Str("boolean"))>>)

any == Construct(HSchema([kind |-> "Any"], Len(heap) + 1), <<EmptyObject>>)

null_type ==
    Construct(HSchema([kind |-> "Null"], Len(heap) + 1),
              <<ReflectSet(EmptyObject, "type", Str("null"))>>)

literal(val) ==
    Construct(HSchema([kind |-> "Literal", value |-> val], Len(heap) + 1),
              <<ReflectSet(EmptyObject, "const", val)>>)

\* The mirror is heap[Len(heap) + 1], its properties object the one after it.
object ==
    Construct(HSchema([kind |-> "Object", props |-> <<>>, declared |-> <<>>],
                      Len(heap) + 1),
              <<ReflectSet(ReflectSet(EmptyObject, "type", Str("object")),
                           "properties", Ref(Len(heap) + 2)),
                EmptyObject>>)

array(item) ==
    /\ Live(item)
    /\ Construct(HSchema([kind |-> "Array", item_schema |-> Unwrap(handles[item])],
                         Len(heap) + 1),
                 <<ReflectSet(ReflectSet(EmptyObject, "type", Str("array")),
                              "items", Ref(Unwrap(handles[item]).json_schema))>>)

instance_of(ctor, name) ==
    Construct(HSchema([kind |-> "InstanceOf", ctor |-> ctor, name |-> name], Len(heap) + 1),
              <<ReflectSet(ReflectSet(EmptyObject, "type", Str("object")),
                           "instanceOf", Str(name))>>)

Range(seq) == {seq[i] : i \in DOMAIN seq}

\* union takes its Vec<HSchema> by value: the structs are moved out of the
\* handles they come from, which are dead from then on.
union(schemas_arr) ==
    /\ call = None
    /\ fuel > 0
    /\ \A i \in DOMAIN schemas_arr : Live(schemas_arr[i])
    /\ \A i, j \in DOMAIN schemas_arr : schemas_arr[i] = schemas_arr[j] => i = j
    /\ LET schemas == [i \in DOMAIN schemas_arr |-> Unwrap(handles[schemas_arr[i]])]
           json_schemas == [i \in DOMAIN schemas_arr |-> Ref(schemas[i].json_schema)]
           moved == [s \in Slots |-> IF s \in Range(schemas_arr) THEN None ELSE handles[s]]
       IN /\ handles' = Append(moved,
                 Some(HSchema([kind |-> "Union", schemas |-> schemas], Len(heap) + 1)))
          /\ heap' = Append(heap, ReflectSet(EmptyObject, "anyOf", Arr(json_schemas)))
    /\ op' = [self |-> 0, ret |-> Len(handles) + 1]
    /\ fuel' = fuel - 1
    /\ UNCHANGED call

\* A modifier's return: self.clone() with the change applied goes to a new
\* handle; the receiver is borrowed immutably. new_heap is the heap after
\* the Reflect::set calls the modifier made on the clone's json_schema.
Modify(self, new_schema, new_heap) ==
    /\ call = None
    /\ fuel > 0
    /\ handles' = Append(handles, Some(new_schema))
    /\ heap' = new_heap
    /\ op' = [self |-> self, ret |-> Len(handles) + 1]
    /\ fuel' = fuel - 1
    /\ UNCHANGED call

\* Reflect::set(&schema.json_schema, key, v)
SetMirror(schema, key, v) ==
    [heap EXCEPT ![schema.json_schema] = ReflectSet(@, key, v)]

optional(self) ==
    /\ Live(self)
    /\ Modify(self, [Unwrap(handles[self]) EXCEPT !.is_optional = TRUE], heap)

coerce(self) ==
    /\ Live(self)
    /\ LET s == Unwrap(handles[self])
       IN Modify(self,
                 IF s.inner.kind \in {"String", "Number", "Boolean"}
                 THEN [s EXCEPT !.inner.coerce = TRUE] ELSE s,
                 heap)

min_length(self, n) ==
    /\ Live(self)
    /\ LET s == Unwrap(handles[self])
       IN IF s.inner.kind = "String"
          THEN Modify(self, [s EXCEPT !.inner.min_len = Some(n)],
                      SetMirror(s, "minLength", Num(n)))
          ELSE Modify(self, s, heap)

max_length(self, n) ==
    /\ Live(self)
    /\ LET s == Unwrap(handles[self])
       IN IF s.inner.kind = "String"
          THEN Modify(self, [s EXCEPT !.inner.max_len = Some(n)],
                      SetMirror(s, "maxLength", Num(n)))
          ELSE Modify(self, s, heap)

set_format(self, format, json_format_val) ==
    /\ Live(self)
    /\ LET s == Unwrap(handles[self])
       IN IF s.inner.kind = "String"
          THEN Modify(self, [s EXCEPT !.inner.format = Some(format)],
                      SetMirror(s, "format", Str(json_format_val)))
          ELSE Modify(self, s, heap)

uuid(self) == set_format(self, [f |-> "Uuid"], "uuid")

email(self) == set_format(self, [f |-> "Email"], "email")

regex(self, pattern) == set_format(self, [f |-> "Regex", pattern |-> pattern], pattern)

phone(self) == set_format(self, [f |-> "Phone"], "phone")

domain(self, require_protocol) ==
    set_format(self, [f |-> "Domain", require_protocol |-> require_protocol], "domain")

min(self, n) ==
    /\ Live(self)
    /\ LET s == Unwrap(handles[self])
       IN IF s.inner.kind = "Number"
          THEN Modify(self, [s EXCEPT !.inner.min = Some(n)],
                      SetMirror(s, "minimum", Num(n)))
          ELSE Modify(self, s, heap)

max(self, n) ==
    /\ Live(self)
    /\ LET s == Unwrap(handles[self])
       IN IF s.inner.kind = "Number"
          THEN Modify(self, [s EXCEPT !.inner.max = Some(n)],
                      SetMirror(s, "maximum", Num(n)))
          ELSE Modify(self, s, heap)

\* Whether props holds key, and at which entry.
HasKey(props, key) == \E i \in DOMAIN props : props[i].key = key

IndexOfKey(props, key) == CHOOSE i \in DOMAIN props : props[i].key = key

InsertAt(seq, pos, e) == SubSeq(seq, 1, pos - 1) \o <<e>> \o SubSeq(seq, pos, Len(seq))

\* HashMap::insert: a key the map holds keeps its place in the table and
\* gets the new value; a new key lands at the place pos its hash gives it
\* among the entries.
HashMapInsert(props, key, schema, pos) ==
    IF HasKey(props, key)
    THEN [props EXCEPT ![IndexOfKey(props, key)].schema = schema]
    ELSE InsertAt(props, pos, [key |-> key, schema |-> schema])

\* The places a new key may land at in the table's order: any.
Places(props, key) == IF HasKey(props, key) THEN {1} ELSE 1..(Len(props) + 1)

\* An add_prop whose property table is shared by the schemas cloned from
\* self (the handles that still hold self's mirror), as a reference-counted
\* table would be.
add_prop_shared(self, key, schema) ==
    /\ call = None
    /\ fuel > 0
    /\ Live(self) /\ Live(schema) /\ self # schema
    /\ LET s == Unwrap(handles[self])
           c == Unwrap(handles[schema])
           Shares(j) == /\ Live(j)
                        /\ Unwrap(handles[j]).inner.kind = "Object"
                        /\ Unwrap(handles[j]).json_schema = s.json_schema
       IN IF s.inner.kind = "Object"
          THEN \E pos \in Places(s.inner.props, key) :
                 handles' = [j \in Slots |->
                    IF Shares(j)
                    THEN Some([Unwrap(handles[j]) EXCEPT
                            !.inner.props = HashMapInsert(s.inner.props, key, c, pos),
                            !.inner.declared =
                                IF HasKey(s.inner.props, key) THEN s.inner.declared
                                ELSE Append(s.inner.declared, key)])
                    ELSE handles[j]]
          ELSE handles' = handles
    /\ op' = [self |-> self, ret |-> 0]
    /\ fuel' = fuel - 1
    /\ UNCHANGED <<heap, call>>

\* add_prop mutates the struct behind self in place and clones schema into
\* it. The two borrows (&mut self, &schema) cannot be of one handle.
add_prop(self, key, schema) ==
    /\ call = None
    /\ fuel > 0
    /\ Live(self) /\ Live(schema) /\ self # schema
    /\ LET s == Unwrap(handles[self])
           c == Unwrap(handles[schema])
       IN IF s.inner.kind = "Object"
          THEN \E pos \in Places(s.inner.props, key) :
                 handles' = [handles EXCEPT ![self] = Some(
                    [s EXCEPT !.inner.props = HashMapInsert(@, key, c, pos),
                              !.inner.declared =
                                  IF HasKey(s.inner.props, key) THEN @
                                  ELSE Append(@, key)])]
          ELSE handles' = handles
    /\ op' = [self |-> self, ret |-> 0]
    /\ fuel' = fuel - 1
    /\ UNCHANGED <<heap, call>>

\* validate borrows self immutably and changes no schema: call records the
\* observation, and nothing need follow it, since every builder call that
\* could follow is also possible from the state before it.
validate(self, value) ==
    /\ call = None
    /\ Live(self)
    /\ call' = Some([self |-> self, value |-> value,
                     result |-> ValidateResult(Unwrap(handles[self]), value)])
    /\ UNCHANGED <<handles, heap, op, fuel>>

\* get_json_schema: the mirror object itself, not a copy.
get_json_schema(self) == Ref(self.json_schema)

(***************************************************************************)
(* Bounds of the model, and the arguments the calls are made with.         *)
(***************************************************************************)
\* Builder calls in one behaviour of Spec (the whole API).
MaxOps == 3
\* Builder calls in one behaviour of SpecFrame.
MaxFrameOps == 4
\* Builder calls in one behaviour of SpecUnion.
MaxUnionOps == 4
\* Builder calls in one behaviour of SpecObject.
MaxObjectOps == 4
\* Builder calls in one behaviour of SpecPath.
MaxPathOps == 5
\* Alternatives of a union.
MaxAlts == 2
\* Elements of an input array.
MaxLen == 2

Keys == {"a", "b"}

Lens == {1}

Nums == {0}

LitVals == {Num(5)}

Ctors == {"Date"}

AltLists == UNION {[1..n -> Slots] : n \in 0..MaxAlts}

\* Values that are neither what a leaf schema expects nor absent.
Containers == {Arr(<<>>), Obj(<<>>), Inst("Date")}

\* What fills the other members of an input that holds a nested member.
Filler == Num(1)

\* The inputs a schema is validated against: the primitives P at every
\* node, and under a composite schema the arrays (of up to MaxLen elements)
\* and the objects (over every set of keys, declared or not) whose members
\* are primitives of P, or Filler but for one member that is an input of
\* the child.
RECURSIVE Samples(_, _)
ArraysOver(item_schema, P) ==
    UNION {[1..n -> P] : n \in 0..MaxLen}
    \cup {[j \in 1..n |-> IF j = i THEN x ELSE Filler] :
            n \in 1..MaxLen, i \in 1..MaxLen, x \in Samples(item_schema, P)}

FieldsOver(props, P) ==
    UNION {[K -> P] : K \in SUBSET Keys}
    \cup UNION {{[k \in K |-> IF k = props[i].key THEN x ELSE Filler] :
                   K \in {L \in SUBSET Keys : props[i].key \in L},
                   x \in Samples(props[i].schema, P)} : i \in DOMAIN props}

Samples(s, P) ==
    P \cup
    CASE s.inner.kind = "Array" -> {Arr(e) : e \in ArraysOver(s.inner.item_schema, P)}
      [] s.inner.kind = "Union" ->
           UNION {Samples(s.inner.schemas[i], P) : i \in DOMAIN s.inner.schemas}
      [] s.inner.kind = "Object" ->
           {Obj(f) : f \in FieldsOver(s.inner.props, P)}
      [] OTHER -> {}

InitWith(n) ==
    /\ handles = <<>>
    /\ heap = <<>>
    /\ call = None
    /\ op = [self |-> 0, ret |-> 0]
    /\ fuel = n

(***************************************************************************)
(* Spec: the whole API, each handle validated against the absent values,   *)
(* a number, a string and the containers.                                  *)
(***************************************************************************)
RootPrims == {UNDEFINED, NULL, Num(1), Str("x")}

Init == InitWith(MaxOps)

Build ==
    \/ string
    \/ number
    \/ boolean
    \/ any
    \/ null_type
    \/ object
    \/ \E val \in LitVals : literal(val)
    \/ \E item \in Slots : array(item)
    \/ \E ctor \in Ctors : instance_of(ctor, ctor)
    \/ \E schemas_arr \in AltLists : union(schemas_arr)
    \/ \E self \in Slots : optional(self)
    \/ \E self \in Slots : coerce(self)
    \/ \E self \in Slots, n \in Lens : min_length(self, n)
    \/ \E self \in Slots, n \in Lens : max_length(self, n)
    \/ \E self \in Slots : uuid(self)
    \/ \E self \in Slots : email(self)
    \/ \E self \in Slots, pattern \in Patterns : regex(self, pattern)
    \/ \E self \in Slots : phone(self)
    \/ \E self \in Slots, require_protocol \in BOOLEAN : domain(self, require_protocol)
    \/ \E self \in Slots, n \in Nums : min(self, n)
    \/ \E self \in Slots, n \in Nums : max(self, n)
    \/ \E self, schema \in Slots, key \in Keys : add_prop(self, key, schema)

\* The handle the last builder call returned or, for add_prop, changed.
\* Every live handle was that handle in some earlier state, and no later
\* call changed its struct, so the validate calls on it cover the calls on
\* every handle.
LastHandle == IF op.ret # 0 THEN op.ret ELSE op.self

\* The validate calls with the inputs of set S.
ValidateOn(S) ==
    /\ call = None
    /\ Live(LastHandle)
    /\ \E value \in S : validate(LastHandle, value)

RootInputs == RootPrims \cup Containers

Next ==
    \/ Build
    \/ ValidateOn(RootInputs)

Spec == Init /\ [][Next]_vars

\* The call recorded, its schema, input and result.
Called == call # None

CallSchema == Unwrap(handles[Unwrap(call).self])

CallValue == Unwrap(call).value

CallResult == Unwrap(call).result

CallKind == CallSchema.inner.kind

RECURSIVE Flatten(_)
Flatten(seqs) == IF seqs = <<>> THEN <<>> ELSE Head(seqs) \o Flatten(Tail(seqs))

(***************************************************************************)
(* SpecFrame: the builder calls alone.                                     *)
(***************************************************************************)
SpecFrame == InitWith(MaxFrameOps) /\ [][Build]_vars

(***************************************************************************)
(* SpecUnion: unions of leaf schemas, validated against the primitives.    *)
(***************************************************************************)
UnionPrims == {UNDEFINED, NULL, Bool(TRUE), Num(1), Str("x")}

NextUnion ==
    \/ string
    \/ number
    \/ boolean
    \/ any
    \/ null_type
    \/ \E self \in Slots : optional(self)
    \/ \E self \in Slots : coerce(self)
    \/ \E schemas_arr \in AltLists : union(schemas_arr)
    \/ ValidateOn(IF Live(LastHandle)
                  THEN Samples(Unwrap(handles[LastHandle]), UnionPrims) ELSE {})

SpecUnion == InitWith(MaxUnionOps) /\ [][NextUnion]_vars

(***************************************************************************)
(* SpecObject: objects, arrays and unions over number and any children,    *)
(* required or optional, validated against the inputs made of the absent   *)
(* values, a number and a string.                                          *)
(***************************************************************************)
ObjectPrims == {UNDEFINED, NULL, Num(1), Str("x")}

NextObject ==
    \/ number
    \/ any
    \/ object
    \/ \E self \in Slots : optional(self)
    \/ \E item \in Slots : array(item)
    \/ \E schemas_arr \in AltLists : union(schemas_arr)
    \/ \E self, schema \in Slots, key \in Keys : add_prop(self, key, schema)
    \/ ValidateOn(IF Live(LastHandle)
                  THEN Samples(Unwrap(handles[LastHandle]), ObjectPrims) ELSE {})

SpecObject == InitWith(MaxObjectOps) /\ [][NextObject]_vars

(***************************************************************************)
(* SpecPath: nested objects, arrays and unions over number leaves,         *)
(* validated against the inputs made of a number and a string.             *)
(***************************************************************************)
PathPrims == {Num(1), Str("x")}

NextPath ==
    \/ number
    \/ object
    \/ \E item \in Slots : array(item)
    \/ \E schemas_arr \in AltLists : union(schemas_arr)
    \/ \E self, schema \in Slots, key \in Keys : add_prop(self, key, schema)
    \/ ValidateOn(IF Live(LastHandle)
                  THEN Samples(Unwrap(handles[LastHandle]), PathPrims) ELSE {})

SpecPath == InitWith(MaxPathOps) /\ [][NextPath]_vars

(***************************************************************************)
(* Union resolution.                                                       *)
(***************************************************************************)
LowestOf(S) == CHOOSE i \in S : \A j \in S : i <= j

\* What each alternative of the called union makes of the input by itself.
AlternativeResults ==
    [i \in DOMAIN CallSchema.inner.schemas |->
        validate_inner(CallSchema.inner.schemas[i], CallValue, None)]

\* The outcome the alternatives give in declared order: the value of the
\* first that accepts, or the issues of all of them, one after the other.
FirstAcceptingOrAllIssues ==
    LET r == AlternativeResults
    IN IF \E i \in DOMAIN r : r[i].ok
       THEN Ok(r[LowestOf({i \in DOMAIN r : r[i].ok})].val)
       ELSE Err(Flatten([i \in DOMAIN r |-> r[i].issues]))

\* C1, as stated: every union, on every input, returns the value of the
\* first alternative that accepts the input, or else the issues of all the
\* alternatives in declared order.
C1_UnionAlwaysDecidedByAlternatives ==
    (Called /\ CallKind = "Union") => CallResult = FirstAcceptingOrAllIssues

\* C1, amended: a union that the top-level absence rule does not answer (it
\* is not optional, or the input is neither null nor undefined) returns the
\* value of the first alternative that accepts the input, or else the
\* issues of all the alternatives in declared order; an optional union
\* given null or undefined succeeds with the absent value whatever its
\* alternatives make of the input.
C1_UnionFirstAcceptingWins ==
    (Called /\ CallKind = "Union") =>
        IF CallSchema.is_optional /\ (is_undefined(CallValue) \/ is_null(CallValue))
        THEN CallResult = Ok(UNDEFINED)
        ELSE CallResult = FirstAcceptingOrAllIssues

\* A union was validated whose first and second alternative both accept the
\* input, with different normalized values, and the first one's came back.
C1_Witness ==
    /\ Called
    /\ CallKind = "Union"
    /\ ~CallSchema.is_optional
    /\ Len(CallSchema.inner.schemas) = 2
    /\ AlternativeResults[1].ok
    /\ AlternativeResults[2].ok
    /\ AlternativeResults[1].val # AlternativeResults[2].val
    /\ CallResult = Ok(AlternativeResults[1].val)

(***************************************************************************)
(* The outcome of validate.                                                *)
(***************************************************************************)
\* C2: validate returns a success value or a failure whose issue list is
\* not empty.
C2_FailureHasIssues == (Called /\ ~CallResult.ok) => CallResult.issues # <<>>

(***************************************************************************)
(* Absence.                                                                *)
(***************************************************************************)
Absent(v) == is_undefined(v) \/ is_null(v)

\* C3: an optional schema of any variant succeeds on undefined and on null
\* with the absent value; a Null schema that is not optional succeeds on
\* null with the absent value and fails on every other input with the one
\* issue "Expected null".
C3_AbsenceRule ==
    Called =>
        /\ (CallSchema.is_optional /\ Absent(CallValue)) => CallResult = Ok(UNDEFINED)
        /\ (CallKind = "Null" /\ ~CallSchema.is_optional) =>
              IF is_null(CallValue) THEN CallResult = Ok(UNDEFINED)
              ELSE CallResult = Err(<<Issue("Expected null", None)>>)

\* An optional array schema, whose variant check rejects null, was given
\* null.
C3_Witness ==
    /\ Called
    /\ CallSchema.is_optional
    /\ CallKind = "Array"
    /\ is_null(CallValue)
    /\ ~VariantDispatch(CallSchema, CallValue, None).ok
    /\ CallResult.ok

(***************************************************************************)
(* Isolation of schema values.                                             *)
(***************************************************************************)
FramePrims == {UNDEFINED, NULL, Num(1), Str("x")}

\* The step is an add_prop call on handle j.
AddPropOn(j) == op'.ret = 0 /\ op'.self = j

\* Handle j validates every input after the step as it did before it.
SameOutcomes(j) ==
    LET before == Unwrap(handles[j])
        after == Unwrap(handles'[j])
    IN \/ after = before
       \/ \A x \in Samples(before, FramePrims) \cup Samples(after, FramePrims) :
             ValidateResult(after, x) = ValidateResult(before, x)

\* C4: no builder call changes what an existing schema value validates,
\* but for add_prop and the object it is called on: a modifier leaves its
\* receiver as it was, and add_prop(key, c) on P leaves the schemas made
\* from P by a modifier, the arrays and objects P was placed into, and c
\* itself, validating every input as before.
C4_Isolation ==
    [][\A j \in DOMAIN handles :
          (Live(j) /\ IsSome(handles'[j]) /\ ~AddPropOn(j)) => SameOutcomes(j)]_vars

\* add_prop gave object P a property after P was placed into an array:
\* the array still holds P without the property, and so validates an input
\* differently from an array made of P now.
C4_Witness ==
    /\ op.ret = 0
    /\ Live(op.self)
    /\ Unwrap(handles[op.self]).inner.kind = "Object"
    /\ Unwrap(handles[op.self]).inner.props # <<>>
    /\ \E j \in Slots :
          /\ Live(j)
          /\ Unwrap(handles[j]).inner.kind = "Array"
          /\ Unwrap(handles[j]).inner.item_schema.json_schema
                = Unwrap(handles[op.self]).json_schema
          /\ Unwrap(handles[j]).inner.item_schema.inner.props = <<>>
          /\ ValidateResult(Unwrap(handles[j]), Arr(<<Obj(<<>>)>>)).ok
          /\ ~validate_inner(Unwrap(handles[op.self]), Obj(<<>>), Some(<<"0">>)).ok

(***************************************************************************)
(* The structural mirror.                                                  *)
(***************************************************************************)
\* What set_format writes to the mirror for a format.
JsonFormatVal(format) ==
    CASE format.f = "Uuid" -> "uuid"
      [] format.f = "Email" -> "email"
      [] format.f = "Phone" -> "phone"
      [] format.f = "Domain" -> "domain"
      [] format.f = "Regex" -> format.pattern

\* The mirror entry for an optional number, and for an optional format.
MirrorNum(o) == IF IsSome(o) THEN Num(Unwrap(o)) ELSE UNDEFINED

MirrorFormat(o) == IF IsSome(o) THEN Str(JsonFormatVal(Unwrap(o))) ELSE UNDEFINED

\* The mirror of schema s describes the configuration of s.
MirrorDescribes(s) ==
    LET mirror == Obj(heap[get_json_schema(s).id])
    IN /\ s.inner.kind = "String" =>
            /\ ReflectGet(mirror, "minLength") = MirrorNum(s.inner.min_len)
            /\ ReflectGet(mirror, "maxLength") = MirrorNum(s.inner.max_len)
            /\ ReflectGet(mirror, "format") = MirrorFormat(s.inner.format)
       /\ s.inner.kind = "Number" =>
            /\ ReflectGet(mirror, "minimum") = MirrorNum(s.inner.min)
            /\ ReflectGet(mirror, "maximum") = MirrorNum(s.inner.max)
       /\ s.inner.kind = "Object" =>
            DOMAIN heap[ReflectGet(mirror, "properties").id]
               = {s.inner.props[i].key : i \in DOMAIN s.inner.props}

\* C5: after any sequence of builder calls the mirror of every schema
\* value describes that value's own configuration: its bounds and format
\* are in the mirror exactly when they are set, with the same value, and
\* the mirror's properties lists the properties added to it.
C5_MirrorInSync == \A j \in Slots : Live(j) => MirrorDescribes(Unwrap(handles[j]))

(***************************************************************************)
(* Object and array validation.                                            *)
(***************************************************************************)
IsPrefix(p, q) == Len(p) <= Len(q) /\ SubSeq(q, 1, Len(p)) = p

\* The issues of a list that lie at or under the path prefix.
IssuesUnder(issues, prefix) ==
    SelectSeq(issues, LAMBDA i : IsSome(i.path) /\ IsPrefix(prefix, Unwrap(i.path)))

IssuesOf(r) == IF r.ok THEN <<>> ELSE r.issues

\* The input is one the Object variant takes for an object.
PlainObject(v) == is_object(v) /\ ~is_array(v)

\* What is to be reported for property key of an object at path parent,
\* its child schema c given the looked-up value val.
ReportedFor(key, c, val, parent) ==
    LET at == Append(UnwrapOrDefault(parent), key)
        r == validate_inner(c, val, Some(at))
    IN IF r.ok THEN <<>>
       ELSE IF is_undefined(val) /\ ~c.is_optional
       THEN <<Issue("Missing required property: " \o key, Some(at))>>
       ELSE r.issues

\* The paths an object is validated at: the root, and under a property.
ParentPaths == {None, Some(<<"p">>)}

\* C6: for every declared property K of an object, the issues the object
\* reports at or under K are: none if the child accepts the looked-up
\* value; the one issue "Missing required property: K" with path parent
\* path + [K], in place of the child's issues, if the lookup gave undefined
\* and the child is not optional and fails; the child's own issues,
\* unchanged, if the value is present (null included) and the child fails.
C6_MissingVersusInvalid ==
    (Called /\ CallKind = "Object" /\ PlainObject(CallValue)) =>
        /\ CallResult = validate_inner(CallSchema, CallValue, None)
        /\ \A parent \in ParentPaths :
              LET props == CallSchema.inner.props
                  issues == IssuesOf(validate_inner(CallSchema, CallValue, parent))
              IN \A i \in DOMAIN props :
                    IssuesUnder(issues, Append(UnwrapOrDefault(parent), props[i].key))
                       = ReportedFor(props[i].key, props[i].schema,
                                     ReflectGet(CallValue, props[i].key), parent)

\* An object was validated with one required property missing, whose
\* child's own issue was replaced, and another present and invalid.
C6_Witness ==
    /\ Called
    /\ CallKind = "Object"
    /\ PlainObject(CallValue)
    /\ \E i, j \in DOMAIN CallSchema.inner.props :
          LET K == CallSchema.inner.props[i].key
              c == CallSchema.inner.props[i].schema
              L == CallSchema.inner.props[j].key
              d == CallSchema.inner.props[j].schema
          IN /\ is_undefined(ReflectGet(CallValue, K))
             /\ ~c.is_optional
             /\ IssuesOf(validate_inner(c, UNDEFINED, Some(<<K>>))) # <<>>
             /\ IssuesUnder(CallResult.issues, <<K>>)
                   = <<Issue("Missing required property: " \o K, Some(<<K>>))>>
             /\ ~is_undefined(ReflectGet(CallValue, L))
             /\ ~validate_inner(d, ReflectGet(CallValue, L), Some(<<L>>)).ok
             /\ IssuesUnder(CallResult.issues, <<L>>)
                   = validate_inner(d, ReflectGet(CallValue, L), Some(<<L>>)).issues

\* The children an object or array schema visits for an input: each with
\* its schema, its value and its path.
Children(s, v) ==
    IF s.inner.kind = "Object"
    THEN [i \in DOMAIN s.inner.props |->
            [schema |-> s.inner.props[i].schema,
             val |-> ReflectGet(v, s.inner.props[i].key),
             path |-> Some(<<s.inner.props[i].key>>),
             reported |-> ReportedFor(s.inner.props[i].key, s.inner.props[i].schema,
                                      ReflectGet(v, s.inner.props[i].key), None)]]
    ELSE [i \in DOMAIN v.elems |->
            [schema |-> s.inner.item_schema,
             val |-> v.elems[i],
             path |-> Some(<<to_string(i - 1)>>),
             reported |-> IssuesOf(validate_inner(s.inner.item_schema, v.elems[i],
                                                  Some(<<to_string(i - 1)>>)))]]

ChildFails(ch) == ~validate_inner(ch.schema, ch.val, ch.path).ok

\* The call is one of an object schema on an object, or of an array schema
\* on an array: one whose children are visited.
VisitsChildren ==
    /\ Called
    /\ \/ CallKind = "Object" /\ PlainObject(CallValue)
       \/ CallKind = "Array" /\ is_array(CallValue)

\* C7: an object or array with a failing child fails, with the issues of
\* every failing child in its list; it succeeds only when every child
\* succeeded.
C7_NoPartialSuccess ==
    VisitsChildren =>
        LET children == Children(CallSchema, CallValue)
        IN /\ CallResult.ok <=> \A i \in DOMAIN children : ~ChildFails(children[i])
           /\ ~CallResult.ok =>
                 \A i \in DOMAIN children :
                    Range(children[i].reported) \subseteq Range(CallResult.issues)

\* C9: the normalized object of an accepted input has a key only for a
\* declared property that produced a present value: a declared optional
\* property that is absent in the input is not a key of it, and no
\* undeclared key is.
C9_NormalizedShape ==
    (Called /\ CallKind = "Object" /\ PlainObject(CallValue) /\ CallResult.ok) =>
        \A k \in DOMAIN CallResult.val.fields :
           /\ HasKey(CallSchema.inner.props, k)
           /\ ~is_undefined(CallResult.val.fields[k])

\* C10: a failing object lists its properties' issues in the order the
\* properties were declared with add_prop, a failing array its elements'
\* issues in ascending index order.
C10_DeclarationOrder ==
    (VisitsChildren /\ ~CallResult.ok) =>
        IF CallKind = "Object"
        THEN CallResult.issues =
                Flatten([i \in DOMAIN CallSchema.inner.declared |->
                    LET key == CallSchema.inner.declared[i]
                    IN ReportedFor(key,
                          CallSchema.inner.props[IndexOfKey(CallSchema.inner.props, key)].schema,
                          ReflectGet(CallValue, key), None)])
        ELSE CallResult.issues =
                Flatten([i \in DOMAIN CallValue.elems |->
                            Children(CallSchema, CallValue)[i].reported])

(***************************************************************************)
(* Paths.                                                                  *)
(***************************************************************************)
Front(p) == SubSeq(p, 1, Len(p) - 1)

Last(p) == p[Len(p)]

\* The nodes (a schema and the value it is given) that the path p leads to
\* from schema s given value v: a property name descends into an object, a
\* decimal element index into an array, and a union is passed through to
\* its alternatives without a segment.
RECURSIVE NodesAt(_, _, _)
NodesAt(s, v, p) ==
    (IF p = <<>> THEN {[schema |-> s, value |-> v]} ELSE {})
    \cup (IF s.inner.kind = "Union"
          THEN UNION {NodesAt(s.inner.schemas[i], v, p) : i \in DOMAIN s.inner.schemas}
          ELSE {})
    \cup (IF p # <<>> /\ s.inner.kind = "Object" /\ PlainObject(v)
             /\ HasKey(s.inner.props, Head(p))
          THEN NodesAt(s.inner.props[IndexOfKey(s.inner.props, Head(p))].schema,
                       ReflectGet(v, Head(p)), Tail(p))
          ELSE {})
    \cup (IF p # <<>> /\ s.inner.kind = "Array" /\ is_array(v)
          THEN UNION {NodesAt(s.inner.item_schema, v.elems[i], Tail(p)) :
                        i \in {j \in DOMAIN v.elems : to_string(j - 1) = Head(p)}}
          ELSE {})

\* The issue was detected at a node its path leads to: the node, validated
\* at that path, reports it.
DetectedAtPath(issue) ==
    \E n \in NodesAt(CallSchema, CallValue, UnwrapOrDefault(issue.path)) :
       \E k \in DOMAIN IssuesOf(validate_inner(n.schema, n.value, issue.path)) :
          validate_inner(n.schema, n.value, issue.path).issues[k] = issue

\* The issue is the one an object reports for a required property that its
\* input lacks: its path leads to the object and ends with the property.
MissingAtPath(issue) ==
    /\ IsSome(issue.path)
    /\ LET p == Unwrap(issue.path)
       IN \E n \in NodesAt(CallSchema, CallValue, Front(p)) :
             /\ n.schema.inner.kind = "Object"
             /\ PlainObject(n.value)
             /\ HasKey(n.schema.inner.props, Last(p))
             /\ is_undefined(ReflectGet(n.value, Last(p)))
             /\ issue.message = "Missing required property: " \o Last(p)

\* C8: every issue validate returns has the path from the root to the node
\* the failure was detected at: property names and decimal element indices
\* in root-to-leaf order, no segment for a union alternative, and no path
\* at all (never an empty one) for a failure at the root.
C8_PathCorrect ==
    (Called /\ ~CallResult.ok) =>
        \A k \in DOMAIN CallResult.issues :
           LET issue == CallResult.issues[k]
           IN /\ issue.path # Some(<<>>)
              /\ DetectedAtPath(issue) \/ MissingAtPath(issue)

\* An issue came back for the second element of an array under a property
\* of the root object.
C8_Witness ==
    /\ Called
    /\ CallKind = "Object"
    /\ ~CallResult.ok
    /\ \E k \in DOMAIN CallResult.issues, key \in Keys :
          /\ CallResult.issues[k].path = Some(<<key, "1">>)
          /\ CallResult.issues[k].message = "Expected number"

(***************************************************************************)
(* SpecBoolean: boolean, string and number schemas with coerce and         *)
(* optional, validated against booleans and against truthy and falsy       *)
(* values of the other types.                                              *)
(***************************************************************************)
\* Builder calls in one behaviour of SpecBoolean.
MaxBooleanOps == 3

BooleanInputs ==
    {UNDEFINED, NULL, Bool(TRUE), Bool(FALSE), Num(0), Num(1), Str(""), Str("x")}
    \cup Containers

NextBoolean ==
    \/ boolean
    \/ string
    \/ number
    \/ \E self \in Slots : optional(self)
    \/ \E self \in Slots : coerce(self)
    \/ \E item \in Slots : array(item)
    \/ ValidateOn(BooleanInputs)

SpecBoolean == InitWith(MaxBooleanOps) /\ [][NextBoolean]_vars

\* C11: a Boolean schema that is not optional accepts an input exactly
\* when the input is a boolean or coerce is enabled, and then returns the
\* truthiness of the input (false for null and undefined under coerce);
\* otherwise it fails with the one issue "Expected boolean".
C11_BooleanTruthTable ==
    (Called /\ CallKind = "Boolean" /\ ~CallSchema.is_optional) =>
        IF IsSome(as_bool(CallValue)) \/ CallSchema.inner.coerce
        THEN CallResult = Ok(Bool(is_truthy(CallValue)))
        ELSE CallResult = Err(<<Issue("Expected boolean", None)>>)

\* A coercing Boolean schema was given a falsy value that is not a boolean
\* and returned false.
C11_Witness ==
    /\ Called
    /\ CallKind = "Boolean"
    /\ ~CallSchema.is_optional
    /\ CallSchema.inner.coerce
    /\ as_bool(CallValue) = None
    /\ ~is_truthy(CallValue)
    /\ CallResult = Ok(Bool(FALSE))

====
